---- MODULE Spec2Model ----
(***************************************************************************)
(* State-machine model of skin_prob.py: a cache-aware fetch of a catalog   *)
(* and of an odds listing, the catalog lookup, the cleaning of the odds,   *)
(* the weighted simulation and the report.                                 *)
(*                                                                         *)
(* Modelling conventions                                                   *)
(*  - time is counted in seconds; the clock advances one hour at a time;   *)
(*  - a money amount after float(f"{cents / 100:.2f}") is a decimal with   *)
(*    two places, the record [whole, frac];                                *)
(*  - a float that is the result of exact arithmetic on such amounts is a  *)
(*    fraction [num, den] (float rounding error is not modelled);          *)
(*  - an item name is a sequence of characters; the character "<star>"     *)
(*    stands for a non-ASCII character such as U+2605;                     *)
(*  - the JSON documents served and cached are well-formed catalogs and    *)
(*    listings (every key the code reads is present).                      *)
(***************************************************************************)
EXTENDS Integers, Sequences, FiniteSets

(***************************** bounds **************************************)
\* Hours the clock may advance in a behaviour.
MaxTime == 4
\* Trials of the simulation (TESTED_CASE_COUNT scaled down from 1000).
MaxTrials == 2
\* Longest odds listing drawn in SpecOdds.
MaxItems == 3
\* Most sections of a catalog, and most cases of a section, in SpecLookup.
MaxSections == 2
MaxCases == 2

(************************* program constants *******************************)
MAIN_SECTIONS_URL == <<"https://gate.skin.club/apiv2/main-sections">>
ODDS_URL == "https://gate.skin.club/apiv2/odds/"
CACHE_TIME_HOURS == 2
TESTED_SECTION == "Crazy Moves"
\* (the apostrophe is U+2019 in the source)
TESTED_CASE == "Who's crazy?"
TESTED_CASE_COUNT == MaxTrials

SecondsPerHour == 60 * 60

\* Python's None; an absent file; a local variable not yet bound is the empty
\* tuple and a bound one the tuple of its value.
None == "None"
NoFile == [exists |-> FALSE]
Unbound == <<>>
Bound(v) == <<v>>
ValueOf(local) == local[1]

(***************************** catalog *************************************)
Case(title, uid, price) == [title |-> title, uid |-> uid, price |-> price]
Section(name, cases) == [name |-> name, cases |-> cases]

\* Seq of length <= n over S.
SeqUpTo(S, n) == UNION {[1..k -> S] : k \in 0..n}

\* float(f"{cents / 100:.2f}") for an integer number of cents >= 0.
FormatCents(cents) == [whole |-> cents \div 100, frac |-> cents % 100]

Hundredths(d) == d.whole * 100 + d.frac

\* found_uid / case_price after the inner loop over one section's cases:
\* the first case whose title matches is taken and the loop breaks.
RECURSIVE ScanCases(_, _, _)
ScanCases(cases, j, acc) ==
    IF j > Len(cases) THEN acc
    ELSE IF cases[j].title = TESTED_CASE
         THEN [found_uid |-> cases[j].uid, case_price |-> Bound(cases[j].price)]
         ELSE ScanCases(cases, j + 1, acc)

\* The outer loop over the sections: the break leaves the inner loop only, so
\* every section named TESTED_SECTION is scanned.
RECURSIVE ScanSections(_, _, _)
ScanSections(data, i, acc) ==
    IF i > Len(data) THEN acc
    ELSE IF data[i].name = TESTED_SECTION
         THEN ScanSections(data, i + 1, ScanCases(data[i].cases, 1, acc))
         ELSE ScanSections(data, i + 1, acc)

\* found_uid = None before the loops; case_price is bound by a match only.
BeforeScanPriceBound == [found_uid |-> None, case_price |-> Bound(0)]

BeforeScan == [found_uid |-> None, case_price |-> Unbound]

Lookup(data) == ScanSections(data, 1, BeforeScan)

(******************************* odds **************************************)
Star == "<star>"
Ascii == {"a", "b", " "}
Whitespace == {" "}

Item(name, price, chance) ==
    [market_hash_name |-> name, fixed_price |-> price, chance_percent |-> chance]

RECURSIVE LStrip(_)
LStrip(s) ==
    IF s # <<>> /\ Head(s) \in Whitespace THEN LStrip(Tail(s)) ELSE s

RECURSIVE RStrip(_)
RStrip(s) ==
    IF s # <<>> /\ s[Len(s)] \in Whitespace
    THEN RStrip(SubSeq(s, 1, Len(s) - 1)) ELSE s

IsAscii(c) == c \in Ascii

\* raw_name.encode("ascii", "ignore").decode().strip()
CleanName(raw_name) == LStrip(RStrip(SelectSeq(raw_name, IsAscii)))

\* The position of key in the dict's insertion order, 0 when absent.
RECURSIVE KeyIndex(_, _, _)
KeyIndex(d, key, i) ==
    IF i > Len(d) THEN 0
    ELSE IF d[i].key = key THEN i ELSE KeyIndex(d, key, i + 1)

\* d[key] = value on an insertion-ordered dict: a present key keeps its place
\* and takes the new value, a new key is appended.
DictSetKeepFirst(d, key, value) ==
    IF KeyIndex(d, key, 1) = 0 THEN Append(d, [key |-> key, value |-> value])
    ELSE d

DictSet(d, key, value) ==
    LET i == KeyIndex(d, key, 1) IN
    IF i = 0 THEN Append(d, [key |-> key, value |-> value])
    ELSE [d EXCEPT ![i] = [key |-> key, value |-> value]]

DictGet(d, key) == d[KeyIndex(d, key, 1)].value

Keys(d) == {d[i].key : i \in 1..Len(d)}

\* The loop that builds filtered_odds_json from the listing.
RECURSIVE FilterOdds(_, _, _)
FilterOdds(data, i, acc) ==
    IF i > Len(data) THEN acc
    ELSE FilterOdds(data, i + 1,
            DictSet(acc, CleanName(data[i].market_hash_name),
                    [price |-> FormatCents(data[i].fixed_price),
                     chance |-> data[i].chance_percent]))

\* sum of chance * price over the dict, in (percent x hundredths)
RECURSIVE WeightedSum(_, _)
WeightedSum(d, i) ==
    IF i > Len(d) THEN 0
    ELSE d[i].value.chance * Hundredths(d[i].value.price) + WeightedSum(d, i + 1)

RECURSIVE TotalChance(_, _)
TotalChance(d, i) ==
    IF i > Len(d) THEN 0 ELSE d[i].value.chance + TotalChance(d, i + 1)

\* expected_return: the sum of (chance / 100) * price, as a fraction.
ExpectedReturn(d) == [num |-> WeightedSum(d, 1), den |-> 100 * 100]


(*************************** fixtures of Spec ******************************)
\* What the catalog endpoint may serve: the tested case under identifier
\* U123, the same case regenerated as U456 and as U789, and a catalog without
\* the case.
CatalogU123 ==
    <<Section("Other", <<Case(TESTED_CASE, "U999", 300)>>),
      Section(TESTED_SECTION, <<Case("Other", "U999", 300),
                                Case(TESTED_CASE, "U123", 200)>>)>>

CatalogU456 ==
    <<Section(TESTED_SECTION, <<Case(TESTED_CASE, "U456", 500)>>)>>

CatalogU789 ==
    <<Section(TESTED_SECTION, <<Case(TESTED_CASE, "U789", 500)>>)>>

CatalogWithoutCase ==
    <<Section(TESTED_SECTION, <<Case("Other", "U999", 300)>>)>>

Catalogs == {CatalogU123, CatalogU456, CatalogU789, CatalogWithoutCase}

\* What the odds endpoint serves for an identifier: two items; three entries
\* of which two clean to the same name; one item of chance 0.
OddsFor(uid) ==
    IF uid = "U123"
    THEN <<Item(<<"a">>, 100, 90), Item(<<"b">>, 1000, 10)>>
    ELSE IF uid = "U456"
    THEN <<Item(<<Star, " ", "a">>, 100, 50), Item(<<"b">>, 1000, 0),
           Item(<<"a", " ", Star>>, 1000, 10)>>
    ELSE IF uid = "U789"
    THEN <<Item(<<Star>>, 100, 0)>>
    ELSE <<>>

(****************************** state **************************************)
MAIN_SECTIONS_FILE == "data/main_sections.json"
\* The names depend on the case name (safe_case) alone.
ODDS_FILE == "data/odds_who_s_crazy_.json"
FILTERED_ODDS_FILE == "data/filtered_odds_who_s_crazy_.json"
RESULTS_FILE == "results/results_who_s_crazy_.txt"

NoError == "NoError"
FetchErrors == {"URLError", "JSONDecodeError"}

VARIABLES
    now,                  \* time.time(), in seconds
    serverCatalog,        \* what the catalog endpoint serves
    catalogFile,          \* MAIN_SECTIONS_FILE: NoFile or [content, mtime]
    oddsFile,             \* ODDS_FILE: NoFile or [content, mtime]
    oddsFileUid,          \* the identifier in the URL ODDS_FILE was fetched from
    filteredFile,         \* FILTERED_ODDS_FILE: NoFile or the cleaned mapping
    resultsFile,          \* RESULTS_FILE: NoFile or the results written
    pc,                   \* where the run is
    found_uid, case_price, formatted_case_price, odds_url,
    filtered_odds_json, results_list, expected_return,
    error,                \* the exception that ended the run
    requests,             \* the URLs this run sent a GET to, in order
    written,              \* the files this run wrote
    startCatalog, startOdds,  \* the cache files as the run found them
    prevRun               \* what the previous run computed

files == <<catalogFile, oddsFile, oddsFileUid, filteredFile, resultsFile>>
locals == <<found_uid, case_price, formatted_case_price, odds_url,
            filtered_odds_json, results_list, expected_return>>
history == <<startCatalog, startOdds, prevRun>>
vars == <<now, serverCatalog, files, pc, locals, error, requests, written, history>>

NoRun == [ok |-> FALSE]

InitLocals ==
    /\ found_uid = "Unbound"
    /\ case_price = Unbound
    /\ formatted_case_price = Unbound
    /\ odds_url = Unbound
    /\ filtered_odds_json = Unbound
    /\ results_list = <<>>
    /\ expected_return = Unbound

Init ==
    /\ now = 0
    /\ serverCatalog \in Catalogs
    /\ catalogFile = NoFile
    /\ oddsFile = NoFile
    /\ oddsFileUid = None
    /\ filteredFile = NoFile
    /\ resultsFile = NoFile
    /\ pc = "idle"
    /\ InitLocals
    /\ error = NoError
    /\ requests = <<>>
    /\ written = {}
    /\ startCatalog = NoFile
    /\ startOdds = NoFile
    /\ prevRun = NoRun

(************************* the cache-aware fetch ***************************)
\* check_file_mtime: (now - mtime) / 3600, as a fraction.
check_file_mtime(file) == [num |-> now - file.mtime, den |-> SecondsPerHour]

\* mtime_in_hours > CACHE_TIME_HOURS
IsStaleAtTTL(mtime_in_hours) ==
    mtime_in_hours.num >= CACHE_TIME_HOURS * mtime_in_hours.den

IsStale(mtime_in_hours) ==
    mtime_in_hours.num > CACHE_TIME_HOURS * mtime_in_hours.den

\* os.path.exists(file) and the age test: whether request_json is called.
MustRequestAlways(file) == TRUE

MustRequest(file) == ~file.exists \/ IsStale(check_file_mtime(file))

\* The file after request_json raised in urlopen or json.load: open(file, "w")
\* is not reached.
FileAfterFailedFetchTruncated(file) == NoFile

FileAfterFailedFetch(file) == file

\* The file after request_json returned.
FileAfterFetch(json_data) ==
    [exists |-> TRUE, content |-> json_data, mtime |-> now]

ServerResponse(url) ==
    IF url = MAIN_SECTIONS_URL THEN serverCatalog ELSE OddsFor(url[2])


(****************************** the run ************************************)
\* The process starts: main() is entered with nothing bound.
StartRun ==
    /\ pc = "idle"
    /\ pc' = "step1"
    /\ requests' = <<>>
    /\ written' = {}
    /\ error' = NoError
    /\ startCatalog' = catalogFile
    /\ startOdds' = oddsFile
    /\ UNCHANGED <<now, serverCatalog, files, locals, prevRun>>

\* Step 1: download or reuse the cached main_sections file.
CatalogCache ==
    /\ pc = "step1"
    /\ IF MustRequest(catalogFile)
       THEN /\ requests' = Append(requests, MAIN_SECTIONS_URL)
            /\ \/ /\ catalogFile' = FileAfterFetch(ServerResponse(MAIN_SECTIONS_URL))
                  /\ written' = written \cup {MAIN_SECTIONS_FILE}
                  /\ pc' = "step2"
                  /\ error' = error
               \/ /\ catalogFile' = FileAfterFailedFetch(catalogFile)
                  /\ written' = written
                  /\ pc' = "aborted"
                  /\ error' \in FetchErrors
       ELSE /\ pc' = "step2"
            /\ UNCHANGED <<catalogFile, requests, written, error>>
    /\ UNCHANGED <<now, serverCatalog, oddsFile, oddsFileUid, filteredFile,
                   resultsFile, locals, history>>

\* Steps 2 and 3: extract the uid and the price of the tested case, format the
\* price and build the odds URL. case_price is read unbound when no case matched.
LookupStep ==
    /\ pc = "step2"
    /\ LET r == Lookup(catalogFile.content) IN
       /\ found_uid' = r.found_uid
       /\ case_price' = r.case_price
       /\ IF r.case_price = Unbound
          THEN /\ error' = "UnboundLocalError"
               /\ pc' = "aborted"
               /\ UNCHANGED <<formatted_case_price, odds_url>>
          ELSE /\ formatted_case_price' = Bound(FormatCents(ValueOf(r.case_price)))
               /\ odds_url' = <<ODDS_URL, r.found_uid, "/contents">>
               /\ pc' = "step4"
               /\ error' = error
    /\ UNCHANGED <<now, serverCatalog, files, filtered_odds_json, results_list,
                   expected_return, requests, written, history>>

\* Step 4: download or reuse the cached odds file.
OddsCache ==
    /\ pc = "step4"
    /\ IF MustRequest(oddsFile)
       THEN /\ requests' = Append(requests, odds_url)
            /\ \/ /\ oddsFile' = FileAfterFetch(ServerResponse(odds_url))
                  /\ oddsFileUid' = odds_url[2]
                  /\ written' = written \cup {ODDS_FILE}
                  /\ pc' = "step5"
                  /\ error' = error
               \/ /\ oddsFile' = FileAfterFailedFetch(oddsFile)
                  /\ oddsFileUid' = oddsFileUid
                  /\ written' = written
                  /\ pc' = "aborted"
                  /\ error' \in FetchErrors
       ELSE /\ pc' = "step5"
            /\ UNCHANGED <<oddsFile, oddsFileUid, requests, written, error>>
    /\ UNCHANGED <<now, serverCatalog, catalogFile, filteredFile, resultsFile,
                   locals, history>>

\* Steps 5 and 6: parse and clean the odds, save the cleaned odds.
CleanOdds ==
    /\ pc = "step5"
    /\ filtered_odds_json' = Bound(FilterOdds(oddsFile.content, 1, <<>>))
    /\ filteredFile' = [exists |-> TRUE, content |-> ValueOf(filtered_odds_json')]
    /\ written' = written \cup {FILTERED_ODDS_FILE}
    /\ pc' = "step8"
    /\ UNCHANGED <<now, serverCatalog, catalogFile, oddsFile, oddsFileUid,
                   resultsFile, found_uid, case_price, formatted_case_price,
                   odds_url, results_list, expected_return, error, requests,
                   history>>


\* Step 7: items_list and chances_list, in the dict's order.
items_list(d) == [i \in 1..Len(d) |-> d[i].key]
chances_list(d) == [i \in 1..Len(d) |-> d[i].value.chance]

RECURSIVE Sum(_, _)
Sum(weights, i) == IF i > Len(weights) THEN 0 ELSE weights[i] + Sum(weights, i + 1)

\* random.choices(population, weights=weights, k=1)[0] for weights >= 0 of a
\* positive total: bisecting the cumulative weights at a point of [0, total)
\* lands on an item of positive weight, and on any of them.
Choices(population, weights) ==
    {population[i] : i \in {j \in 1..Len(population) : weights[j] > 0}}

\* random.choices raises IndexError on an empty population and ValueError on
\* a total weight that is not positive.
ChoicesRaises(population, weights) ==
    Len(population) = 0 \/ Sum(weights, 1) <= 0

\* for _ in range(TESTED_CASE_COUNT): whether the loop has ended.
LoopEndedEarly(n) == n >= TESTED_CASE_COUNT - 1

LoopEnded(n) == n >= TESTED_CASE_COUNT

\* Step 8, one trial: draw an item and record it.
Draw ==
    /\ pc = "step8"
    /\ ~LoopEnded(Len(results_list))
    /\ LET d == ValueOf(filtered_odds_json) IN
       /\ ~ChoicesRaises(items_list(d), chances_list(d))
       /\ \E result \in Choices(items_list(d), chances_list(d)) :
             results_list' = Append(results_list, result)
    /\ UNCHANGED <<now, serverCatalog, files, pc, found_uid, case_price,
                   formatted_case_price, odds_url, filtered_odds_json,
                   expected_return, error, requests, written, history>>

\* Step 8, one trial in which random.choices raises.
DrawRaises ==
    /\ pc = "step8"
    /\ ~LoopEnded(Len(results_list))
    /\ LET d == ValueOf(filtered_odds_json) IN
       /\ ChoicesRaises(items_list(d), chances_list(d))
       /\ error' = IF Len(d) = 0 THEN "IndexError" ELSE "ValueError"
    /\ pc' = "aborted"
    /\ UNCHANGED <<now, serverCatalog, files, locals, requests, written, history>>

\* profit: the sum of the prices of the drops, in hundredths.
RECURSIVE Profit(_, _, _)
Profit(d, drops, i) ==
    IF i > Len(drops) THEN 0
    ELSE Hundredths(DictGet(d, drops[i]).price) + Profit(d, drops, i + 1)

\* round(x, 2) of a fraction, in hundredths.
Round2(x) == (2 * 100 * x.num + x.den) \div (2 * x.den)

\* Step 9 and 10: the totals, the expected return and the results file.
Report ==
    /\ pc = "step8"
    /\ LoopEnded(Len(results_list))
    /\ LET d == ValueOf(filtered_odds_json)
           price == Hundredths(ValueOf(formatted_case_price))
           profit == Profit(d, results_list, 1)
           spendings == price * TESTED_CASE_COUNT
           er == ExpectedReturn(d)
           expected_profit == [num |-> er.num - price * 100, den |-> er.den]
           \* (expected_return / formatted_case_price) * 100, reduced
           return_ratio == [num |-> er.num, den |-> price]
       IN /\ expected_return' = Bound(er)
          /\ resultsFile' =
               [exists |-> TRUE,
                summary |-> [cases_opened |-> TESTED_CASE_COUNT,
                             case_name |-> TESTED_CASE,
                             case_price |-> ValueOf(formatted_case_price),
                             total_spent |-> spendings,
                             total_earned |-> profit,
                             net_profit |-> profit - spendings,
                             expected_return |-> Round2(er),
                             expected_profit |-> Round2(expected_profit),
                             return_ratio_percent |-> Round2(return_ratio)],
                drops |-> results_list]
    /\ written' = written \cup {RESULTS_FILE}
    /\ pc' = "done"
    /\ UNCHANGED <<now, serverCatalog, catalogFile, oddsFile, oddsFileUid,
                   filteredFile, found_uid, case_price, formatted_case_price,
                   odds_url, filtered_odds_json, results_list, error, requests,
                   startCatalog, startOdds, prevRun>>

\* The process exits, with status 0 after the summary or non-zero on the
\* unhandled exception; its locals are gone.
Exit ==
    /\ pc \in {"done", "aborted"}
    /\ pc' = "idle"
    /\ prevRun' = IF pc = "done"
                  THEN [ok |-> TRUE,
                        filtered_odds_json |-> ValueOf(filtered_odds_json),
                        case_price |-> ValueOf(formatted_case_price),
                        expected_return |-> ValueOf(expected_return)]
                  ELSE NoRun
    /\ found_uid' = "Unbound"
    /\ case_price' = Unbound
    /\ formatted_case_price' = Unbound
    /\ odds_url' = Unbound
    /\ filtered_odds_json' = Unbound
    /\ results_list' = <<>>
    /\ expected_return' = Unbound
    /\ UNCHANGED <<now, serverCatalog, files, error, requests, written,
                   startCatalog, startOdds>>

(**************************** environment **********************************)
\* An hour passes.
Tick ==
    /\ now < MaxTime * SecondsPerHour
    /\ now' = now + SecondsPerHour
    /\ UNCHANGED <<serverCatalog, files, pc, locals, error, requests, written,
                   history>>

\* The upstream catalog changes.
UpstreamChange ==
    /\ serverCatalog' \in Catalogs \ {serverCatalog}
    /\ UNCHANGED <<now, files, pc, locals, error, requests, written, history>>

Next ==
    \/ StartRun
    \/ CatalogCache
    \/ LookupStep
    \/ OddsCache
    \/ CleanOdds
    \/ Draw
    \/ DrawRaises
    \/ Report
    \/ Exit
    \/ Tick
    \/ UpstreamChange

Spec == Init /\ [][Next]_vars


(********************* the lookup over bounded catalogs ********************)
\* The cases and the catalogs SpecLookup draws from.
LookupCases ==
    {Case(TESTED_CASE, "U123", 500), Case(TESTED_CASE, "U456", 250),
     Case("Other", "U999", 300)}

LookupSections ==
    {Section(name, cases) :
        name \in {TESTED_SECTION, "Other"}, cases \in SeqUpTo(LookupCases, MaxCases)}

LookupCatalogs == SeqUpTo(LookupSections, MaxSections)

\* A run that found a fresh catalog file and is about to read it.
InitLookup ==
    /\ now = 0
    /\ serverCatalog = CatalogU123
    /\ \E data \in LookupCatalogs : catalogFile = FileAfterFetch(data)
    /\ oddsFile = NoFile
    /\ oddsFileUid = None
    /\ filteredFile = NoFile
    /\ resultsFile = NoFile
    /\ pc = "step2"
    /\ InitLocals
    /\ error = NoError
    /\ requests = <<>>
    /\ written = {}
    /\ startCatalog = catalogFile
    /\ startOdds = NoFile
    /\ prevRun = NoRun

NextLookup == LookupStep

SpecLookup == InitLookup /\ [][NextLookup]_vars

(****************** the odds stages over bounded listings ******************)
\* The entries and the listings SpecOdds draws from.
OddsNames == {<<"a">>, <<Star, " ", "a">>, <<"b">>}
OddsValues == {<<100, 90>>, <<1000, 10>>, <<100, 0>>}

OddsItems == {Item(name, v[1], v[2]) : name \in OddsNames, v \in OddsValues}

OddsListings == SeqUpTo(OddsItems, MaxItems)

\* A run that looked up the case U123 at 2.00 and found a fresh odds file.
InitOdds ==
    /\ now = 0
    /\ serverCatalog = CatalogU123
    /\ catalogFile = FileAfterFetch(CatalogU123)
    /\ \E data \in OddsListings : oddsFile = FileAfterFetch(data)
    /\ oddsFileUid = "U123"
    /\ filteredFile = NoFile
    /\ resultsFile = NoFile
    /\ pc = "step5"
    /\ found_uid = "U123"
    /\ case_price = Bound(200)
    /\ formatted_case_price = Bound(FormatCents(200))
    /\ odds_url = <<ODDS_URL, "U123", "/contents">>
    /\ filtered_odds_json = Unbound
    /\ results_list = <<>>
    /\ expected_return = Unbound
    /\ error = NoError
    /\ requests = <<>>
    /\ written = {}
    /\ startCatalog = catalogFile
    /\ startOdds = oddsFile
    /\ prevRun = NoRun

NextOdds ==
    \/ CleanOdds
    \/ Draw
    \/ DrawRaises
    \/ Report

SpecOdds == InitOdds /\ [][NextOdds]_vars


(******************************* claims ************************************)
TTLSeconds == CACHE_TIME_HOURS * SecondsPerHour

\* The age of a file in seconds, at the current time.
Age(file) == now - file.mtime

\* C1: for the catalog file and for the odds file, the step that handles the
\* file sends the GET for it if and only if the file does not exist or is
\* older than the 2-hour TTL; a file within the TTL is left as it is (content
\* and mtime) and no request is sent; for a file older than the TTL the
\* request is sent and, the response received, the file is overwritten with
\* it at the current time.
C1_FetchIffMissingOrStale ==
    [][/\ (pc = "step1" /\ pc' # "step1") =>
            /\ (requests' # requests)
                 <=> (~catalogFile.exists \/ Age(catalogFile) > TTLSeconds)
            /\ requests' # requests =>
                 requests' = Append(requests, MAIN_SECTIONS_URL)
            /\ (catalogFile.exists /\ Age(catalogFile) <= TTLSeconds) =>
                 catalogFile' = catalogFile
            /\ (requests' # requests /\ pc' = "step2") =>
                 catalogFile' = [exists |-> TRUE, content |-> serverCatalog,
                                 mtime |-> now]
       /\ (pc = "step4" /\ pc' # "step4") =>
            /\ (requests' # requests)
                 <=> (~oddsFile.exists \/ Age(oddsFile) > TTLSeconds)
            /\ requests' # requests => requests' = Append(requests, odds_url)
            /\ (oddsFile.exists /\ Age(oddsFile) <= TTLSeconds) =>
                 oddsFile' = oddsFile
            /\ (requests' # requests /\ pc' = "step5") =>
                 oddsFile' = [exists |-> TRUE, content |-> OddsFor(found_uid),
                              mtime |-> now]
      ]_vars

\* A run that found both files, refetched the catalog, which was 3 hours old,
\* and reused the odds file, which was 1 hour old.
C1_Witness ==
    /\ pc = "step5"
    /\ startCatalog.exists /\ startOdds.exists
    /\ now - startCatalog.mtime = 3 * SecondsPerHour
    /\ now - startOdds.mtime = SecondsPerHour
    /\ requests = <<MAIN_SECTIONS_URL>>
    /\ catalogFile.mtime = now
    /\ oddsFile = startOdds

\* The lookup of this run has been done.
LookupRan == found_uid # "Unbound"

\* No case of the catalog has the tested section name and the tested title.
NoMatchIn(data) ==
    ~ \E i \in 1..Len(data) :
        /\ data[i].name = TESTED_SECTION
        /\ \E j \in 1..Len(data[i].cases) : data[i].cases[j].title = TESTED_CASE

OnlyCatalogTouched ==
    /\ \A i \in 1..Len(requests) : requests[i] = MAIN_SECTIONS_URL
    /\ written \subseteq {MAIN_SECTIONS_FILE}
    /\ odds_url = Unbound

\* C2: when the catalog holds no case of the tested section and title, the
\* run reports a NotFound error and does not proceed: no odds URL is built,
\* no odds request is sent, no filtered-odds or results file is written.
C2_NotFoundReported ==
    (LookupRan /\ NoMatchIn(catalogFile.content)) =>
        /\ error = "NotFound"
        /\ pc = "aborted"
        /\ OnlyCatalogTouched

\* C8: when no case matches, the identifier stays unset and the run goes on
\* past the lookup without an error, with the odds URL built from the unset
\* identifier.
C8_ProceedsSilently ==
    (LookupRan /\ NoMatchIn(catalogFile.content)) =>
        /\ found_uid = None
        /\ error = NoError
        /\ odds_url = <<ODDS_URL, None, "/contents">>

\* C8, amended: when no case matches, the identifier stays unset (None) and
\* the run ends there on the UnboundLocalError of case_price (line 68): the
\* odds URL is not built, no odds request is sent and no file other than the
\* catalog file is written by the run.
C8_AbortsOnUnboundPrice ==
    /\ (LookupRan /\ NoMatchIn(catalogFile.content)) =>
          /\ found_uid = None
          /\ case_price = Unbound
          /\ pc = "aborted"
          /\ error = "UnboundLocalError"
          /\ OnlyCatalogTouched
    /\ (LookupRan /\ found_uid = None) => NoMatchIn(catalogFile.content)

\* A run that fetched a catalog without the tested case and looked it up.
C8_Witness ==
    /\ LookupRan
    /\ NoMatchIn(catalogFile.content)
    /\ requests = <<MAIN_SECTIONS_URL>>
    /\ pc = "aborted"


\* The positions <<i, j>> of the cases matching the tested section and title.
Matches(data) ==
    UNION {{<<i, j>> : j \in {k \in 1..Len(data[i].cases) :
                                  /\ data[i].name = TESTED_SECTION
                                  /\ data[i].cases[k].title = TESTED_CASE}} :
           i \in 1..Len(data)}

\* The first of them in scan order: sections, then the section's cases.
FirstMatch(data) ==
    CHOOSE m \in Matches(data) :
        \A n \in Matches(data) : m[1] < n[1] \/ (m[1] = n[1] /\ m[2] <= n[2])

\* C3: the lookup returns the identifier and the price (cents / 100, so 500
\* gives 5.00) of one and the same case: the first case in scan order whose
\* section name and title match.
C3_FirstMatchSelected ==
    (LookupRan /\ ~NoMatchIn(catalogFile.content)) =>
        LET m == FirstMatch(catalogFile.content)
            case == catalogFile.content[m[1]].cases[m[2]]
        IN /\ found_uid = case.uid
           /\ formatted_case_price =
                 Bound([whole |-> case.price \div 100, frac |-> case.price % 100])

\* The last position of the listing whose name cleans to key.
LastIndex(data, key) ==
    CHOOSE k \in 1..Len(data) :
        /\ CleanName(data[k].market_hash_name) = key
        /\ \A l \in (k + 1)..Len(data) : CleanName(data[l].market_hash_name) # key

CleanNames(data) == {CleanName(data[k].market_hash_name) : k \in 1..Len(data)}

RECURSIVE SumOver(_, _)
\* The sum of chance x price (in hundredths) of the last entry of each name.
SumOver(data, keys) ==
    IF keys = {} THEN 0
    ELSE LET key == CHOOSE k \in keys : TRUE
             last == data[LastIndex(data, key)]
         IN last.chance_percent * last.fixed_price + SumOver(data, keys \ {key})

\* C4: the cleaned mapping has exactly one entry per distinct sanitized name,
\* whose price and chance are those of the last listing entry that sanitizes
\* to the name; the weights of the simulation and the expected return are
\* those of these last entries alone.
C4_LastWriteWins ==
    filtered_odds_json # Unbound =>
        LET d == ValueOf(filtered_odds_json)
            data == oddsFile.content
        IN /\ \A i, j \in 1..Len(d) : d[i].key = d[j].key => i = j
           /\ Keys(d) = CleanNames(data)
           /\ \A i \in 1..Len(d) :
                LET last == data[LastIndex(data, d[i].key)] IN
                /\ Hundredths(d[i].value.price) = last.fixed_price
                /\ d[i].value.chance = last.chance_percent
                /\ chances_list(d)[i] = last.chance_percent
                /\ items_list(d)[i] = d[i].key
           /\ filteredFile.content = d
           /\ expected_return # Unbound =>
                ValueOf(expected_return).num = SumOver(data, CleanNames(data))

\* A completed run on a listing in which a later entry of another raw name,
\* price and chance cleans to the name of an earlier one.
C4_Witness ==
    /\ pc = "done"
    /\ \E k, l \in 1..Len(oddsFile.content) :
          LET data == oddsFile.content IN
          /\ k < l
          /\ data[k].market_hash_name # data[l].market_hash_name
          /\ CleanName(data[k].market_hash_name) = CleanName(data[l].market_hash_name)
          /\ data[k].fixed_price # data[l].fixed_price
          /\ data[k].chance_percent > 0

\* A fraction of the currency, counted in hundredths.
InHundredths(x) == [num |-> x.num, den |-> x.den \div 100]

SameFraction(x, y) == x.num * y.den = y.num * x.den

\* C5: the expected return is the sum over the cleaned mapping of
\* price x (chance / total of the chances), whatever the chances sum to and
\* whatever the simulation drew.
C5_WeightNormalized ==
    pc = "done" =>
        LET d == ValueOf(filtered_odds_json) IN
        SameFraction(InHundredths(ValueOf(expected_return)),
                     [num |-> WeightedSum(d, 1), den |-> TotalChance(d, 1)])

SecondRunWithinTTL ==
    /\ pc # "idle"
    /\ prevRun.ok
    /\ startCatalog.exists /\ startOdds.exists
    /\ now - startCatalog.mtime <= TTLSeconds
    /\ now - startOdds.mtime <= TTLSeconds

\* C6: a run that follows a completed run while both cache files are within
\* the TTL sends no request, leaves both cache files as they were (content
\* and mtime), does not fail, and computes the cleaned mapping, the case price
\* and the expected return that the first run computed.
C6_SecondRunReusesCache ==
    SecondRunWithinTTL =>
        /\ requests = <<>>
        /\ catalogFile = startCatalog
        /\ oddsFile = startOdds
        /\ pc # "aborted"
        /\ formatted_case_price # Unbound =>
              ValueOf(formatted_case_price) = prevRun.case_price
        /\ filtered_odds_json # Unbound =>
              ValueOf(filtered_odds_json) = prevRun.filtered_odds_json
        /\ expected_return # Unbound =>
              ValueOf(expected_return) = prevRun.expected_return
        /\ pc = "done" =>
              /\ expected_return # Unbound
              /\ filteredFile.content = prevRun.filtered_odds_json

\* A second run completed exactly at the TTL of the catalog file, the upstream
\* catalog having changed in between.
C6_Witness ==
    /\ SecondRunWithinTTL
    /\ pc = "done"
    /\ now - startCatalog.mtime = TTLSeconds
    /\ serverCatalog # catalogFile.content

\* C9: a failed fetch ends the run at once: the step that fails changes no
\* file, the failed request is the last one the run sends (no retry), and
\* until the process exits nothing on disk changes; the file being fetched
\* keeps its content or stays absent, and the odds file (when the catalog
\* fetch failed), the filtered-odds file and the results file are not written
\* by the run.
C9_FailedFetchAborts ==
    [][(pc' = "aborted" /\ error' \in FetchErrors) =>
          /\ files' = files
          /\ pc \in {"step1", "step4", "aborted"}
          /\ pc = "aborted" => requests' = requests
          /\ pc = "step1" =>
                requests' = <<MAIN_SECTIONS_URL>> /\ written' = {}
          /\ pc = "step4" =>
                /\ requests' = Append(requests, odds_url)
                /\ MAIN_SECTIONS_URL \notin {requests[i] : i \in 1..Len(requests)}
                     \/ requests = <<MAIN_SECTIONS_URL>>
          /\ written' \subseteq {MAIN_SECTIONS_FILE}
          /\ Len(requests') = 1 => written' = {}
      ]_vars

\* A run whose refetch of a stale, existing odds file failed after its
\* refetch of the catalog succeeded.
C9_Witness ==
    /\ pc = "aborted"
    /\ error \in FetchErrors
    /\ Len(requests) = 2
    /\ written = {MAIN_SECTIONS_FILE}
    /\ oddsFile.exists
    /\ oddsFile = startOdds

\* C10: the odds listing a run parses was fetched from the odds URL of the
\* identifier the same run extracted from the catalog.
C10_OddsOfCurrentUid ==
    filtered_odds_json # Unbound => oddsFileUid = found_uid

====
